---- MODULE Spec2Model ----
(***************************************************************************)
(* GrandPal backend: the per-user memory store (memory_service.py), the    *)
(* memory extractor, the session brain (gemini_service.py) and the three   *)
(* conversation handlers (main.py).                                        *)
(*                                                                         *)
(* Text that the code lower-cases or rewrites (names, interests, user      *)
(* names) is a sequence of one-character strings; text the code only       *)
(* stores (notes, topics, stories, relations, details) is an atom.         *)
(* Python None / JSON null is the atom None; a missing timestamp is        *)
(* NoTime.  All handlers are `async def` without a suspension point, so    *)
(* each runs to completion on the event loop: one action per handler.      *)
(***************************************************************************)
EXTENDS Integers, Sequences, FiniteSets, TLC

VARIABLES
    clock,            \* datetime.now()
    disk,             \* MEMORY_DIR: user id -> content of <user id>.json
    user_memories,    \* memory_service.user_memories: user id -> UserMemory
    active_sessions,  \* gemini_service.active_sessions: session id -> GrandPalBrain
    next_uuid,        \* number of uuid4() values drawn so far
    calls,            \* history: user id -> mutator -> arguments of its calls, in order
    created,          \* history: user id -> session ids registered for that user
    faults,           \* history: number of writes that have failed
    ops,              \* history: number of operations performed
    reply,            \* what the last operation returned to its caller
    tasks             \* the end_session coroutines of the event loop, in arrival order

vars == <<clock, disk, user_memories, active_sessions, next_uuid, calls, created, faults, ops,
          reply, tasks>>

(* Bounds of the model *)

MaxClock    == 2      \* datetime.now() takes the values 1..MaxClock
MaxSessions == 2      \* uuid4() is drawn at most MaxSessions times
MaxOps      == 4      \* at most MaxOps handler calls in a run of the service
MaxCalls    == 2      \* at most MaxCalls direct mutator calls in a run of the store
MaxFaults   == 1      \* at most MaxFaults writes fail in a run
MaxTasks    == 2      \* at most MaxTasks end_conversation requests are in flight or done
OverCap     == 1      \* SpecBounded adds up to cap + OverCap elements to a list

(* Program constants *)

HealthCap == 10
StoryCap  == 20
TopicCap  == 5

ShownFamily    == 5     \* family[:5]
ShownHealth    == 3     \* health[-3:]
ShownInterests == 5     \* interests[:5]
ShownTopics    == 3     \* recent[-3:]

None   == "<None>"
NoTime == 0

(* Text *)

LowerMap == ("A" :> "a") @@ ("B" :> "b") @@ ("E" :> "e") @@ ("G" :> "g")

\* one character of str.lower()
LowerChar(c) == IF c \in DOMAIN LowerMap THEN LowerMap[c] ELSE c

\* str.lower()
Lower(s) == [i \in DOMAIN s |-> LowerChar(s[i])]

\* str.replace(" ", "_")
ReplaceSpace(s) == [i \in DOMAIN s |-> IF s[i] = " " THEN "_" ELSE s[i]]

\* user_id = user_name.lower().replace(" ", "_")
UserIdOf(user_name) == ReplaceSpace(Lower(user_name))

UserNames == { <<"A", " ", "b">>, <<"a", "_", "b">> }
UserIds   == { UserIdOf(n) : n \in UserNames }

FamilyNames == { <<"E", "m">>, <<"e", "m">>, <<"B", "o">> }
Relations   == { "granddaughter", "son" }
DetailsIn   == { "", "soccer" }
Interests   == { <<"G", "a">>, <<"g", "a">>, <<"c", "h">> }
Notes       == { 1 }
Topics      == { 1 }
Stories     == { 1 }

\* list[-n:]
LastN(s, n) == IF Len(s) <= n THEN s ELSE SubSeq(s, Len(s) - n + 1, Len(s))

\* list[:n]
FirstN(s, n) == IF Len(s) <= n THEN s ELSE SubSeq(s, 1, n)

\* dict.get(k, default)
Get(d, k, default) == IF k \in DOMAIN d THEN d[k] ELSE default

\* d[k] = v
SetField(d, k, v) == [f \in DOMAIN d \cup {k} |-> IF f = k THEN v ELSE d[f]]

(* Durable storage: one file per user *)

Absent      == [kind |-> "absent"]
Corrupt     == [kind |-> "corrupt"]
Json(obj)   == [kind |-> "json", obj |-> obj]
EmptyObject == [f \in {} |-> None]

\* how a write can end: done, open() raised, or the dump raised after open()
\* truncated the file
WriteOutcomes == { "ok", "open_fails", "dump_fails" }

\* UserMemory._load_memories
DefaultMemories(user_name, now) ==
    [ user_name         |-> user_name,
      created_at        |-> now,
      last_conversation |-> NoTime,
      profile           |-> [ family_members  |-> <<>>,
                              health_notes    |-> <<>>,
                              interests       |-> <<>>,
                              important_dates |-> <<>>,
                              location        |-> None,
                              occupation      |-> None ],
      stories           |-> <<>>,
      recent_topics     |-> <<>>,
      conversation_count |-> 0 ]

\* _load_memories that takes an unparseable file for the empty object
LoadMemories_CorruptAsEmpty(file, user_name, now) ==
    IF file.kind = "json" THEN file.obj
    ELSE IF file.kind = "corrupt" THEN EmptyObject
    ELSE DefaultMemories(user_name, now)

LoadMemories(file, user_name, now) ==
    IF file.kind = "json" THEN file.obj ELSE DefaultMemories(user_name, now)

\* The outcome of a call on a UserMemory: the record it leaves in memory, the
\* file it leaves on disk, the exception it raised ("none": it returned) and
\* whether it entered save().
Outcome(m, file, exc, saved) == [m |-> m, file |-> file, exc |-> exc, saved |-> saved]

\* save() that writes the record without stamping it
Save_NoStamp(m, file, now, w) ==
    CASE w = "ok"         -> Outcome(m, Json(m), "none", TRUE)
      [] w = "open_fails" -> Outcome(m, file, "OSError", TRUE)
      [] OTHER            -> Outcome(m, Corrupt, "OSError", TRUE)

\* UserMemory.save
Save(m, file, now, w) ==
    LET m2 == SetField(m, "last_conversation", now)
    IN  CASE w = "ok"         -> Outcome(m2, Json(m2), "none", TRUE)
          [] w = "open_fails" -> Outcome(m2, file, "OSError", TRUE)
          [] OTHER            -> Outcome(m2, Corrupt, "OSError", TRUE)

\* UserMemory.increment_conversation
IncrementConversation(m, file, now, w) ==
    Save(SetField(m, "conversation_count", Get(m, "conversation_count", 0) + 1),
         file, now, w)


\* `if details:`
Truthy(x) == x # "" /\ x # None

Min(S) == CHOOSE i \in S : \A j \in S : i <= j

\* add_family_member that matches names case-sensitively
AddFamilyMember_CaseSensitive(m, file, name, relation, details, now, w) ==
    IF "profile" \notin DOMAIN m THEN Outcome(m, file, "KeyError", FALSE)
    ELSE
    LET family == m.profile.family_members
        found  == { i \in DOMAIN family : family[i].name = name }
    IN  IF found # {}
        THEN LET i == Min(found)
                 member == [ family[i] EXCEPT
                               !.relation = relation,
                               !.details  = IF Truthy(details) THEN details ELSE @ ]
             IN  Save([m EXCEPT !.profile.family_members[i] = member], file, now, w)
        ELSE Save([m EXCEPT !.profile.family_members =
                       Append(@, [name |-> name, relation |-> relation, details |-> details])],
                  file, now, w)

\* UserMemory.add_family_member
AddFamilyMember(m, file, name, relation, details, now, w) ==
    IF "profile" \notin DOMAIN m THEN Outcome(m, file, "KeyError", FALSE)
    ELSE
    LET family == m.profile.family_members
        found  == { i \in DOMAIN family : Lower(family[i].name) = Lower(name) }
    IN  IF found # {}
        THEN LET i == Min(found)
                 member == [ family[i] EXCEPT
                               !.relation = relation,
                               !.details  = IF Truthy(details) THEN details ELSE @ ]
             IN  Save([m EXCEPT !.profile.family_members[i] = member], file, now, w)
        ELSE Save([m EXCEPT !.profile.family_members =
                       Append(@, [name |-> name, relation |-> relation, details |-> details])],
                  file, now, w)

\* add_interest that compares case-sensitively
AddInterest_CaseSensitive(m, file, interest, now, w) ==
    IF "profile" \notin DOMAIN m THEN Outcome(m, file, "KeyError", FALSE)
    ELSE
    LET interests == m.profile.interests
    IN  IF interest \notin { interests[i] : i \in DOMAIN interests }
        THEN Save([m EXCEPT !.profile.interests = Append(@, interest)], file, now, w)
        ELSE Outcome(m, file, "none", FALSE)

\* UserMemory.add_interest
AddInterest(m, file, interest, now, w) ==
    IF "profile" \notin DOMAIN m THEN Outcome(m, file, "KeyError", FALSE)
    ELSE
    LET interests == m.profile.interests
    IN  IF Lower(interest) \notin { Lower(interests[i]) : i \in DOMAIN interests }
        THEN Save([m EXCEPT !.profile.interests = Append(@, interest)], file, now, w)
        ELSE Outcome(m, file, "none", FALSE)

\* add_health_note that keeps the first notes ([:10] for [-10:])
AddHealthNote_KeepFirst(m, file, note, now, w) ==
    IF "profile" \notin DOMAIN m THEN Outcome(m, file, "KeyError", FALSE)
    ELSE Save([m EXCEPT !.profile.health_notes = FirstN(Append(@, note), HealthCap)],
              file, now, w)

\* UserMemory.add_health_note
AddHealthNote(m, file, note, now, w) ==
    IF "profile" \notin DOMAIN m THEN Outcome(m, file, "KeyError", FALSE)
    ELSE Save([m EXCEPT !.profile.health_notes = LastN(Append(@, note), HealthCap)],
              file, now, w)

\* UserMemory.add_recent_topic
AddRecentTopic(m, file, topic, now, w) ==
    IF "recent_topics" \notin DOMAIN m THEN Outcome(m, file, "KeyError", FALSE)
    ELSE Save([m EXCEPT !.recent_topics = LastN(Append(@, topic), TopicCap)],
              file, now, w)

\* UserMemory.add_story
AddStory(m, file, summary, now, w) ==
    IF "stories" \notin DOMAIN m THEN Outcome(m, file, "KeyError", FALSE)
    ELSE Save([m EXCEPT !.stories =
                   LastN(Append(@, [summary |-> summary, date |-> now]), StoryCap)],
              file, now, w)

MutatorOps == { "increment_conversation", "add_family_member", "add_interest",
                "add_health_note", "add_recent_topic", "add_story" }

\* A mutator call: its name and its arguments.
Call(op, arg) == <<op, arg>>

\* Dispatch of a mutator call on a UserMemory.
Apply(c, m, file, now, w) ==
    CASE c[1] = "increment_conversation" -> IncrementConversation(m, file, now, w)
      [] c[1] = "add_family_member" ->
             AddFamilyMember(m, file, c[2].name, c[2].relation, c[2].details, now, w)
      [] c[1] = "add_interest"      -> AddInterest(m, file, c[2], now, w)
      [] c[1] = "add_health_note"   -> AddHealthNote(m, file, c[2], now, w)
      [] c[1] = "add_recent_topic"  -> AddRecentTopic(m, file, c[2], now, w)
      [] OTHER                      -> AddStory(m, file, c[2], now, w)

(* Memory extraction: extract_memories_from_conversation *)

\* A JSON value of a list-valued field: null or a list.
Null    == [t |-> "null"]
List(v) == [t |-> "list", v |-> v]

\* The provider's answer as the code reads it: prose "p", braces, and "J" for
\* the members of the JSON object the provider wrote.
Max(S) == CHOOSE i \in S : \A j \in S : i >= j

\* the non-greedy pattern \{.*?\}: up to the first "}" after the leftmost "{"
JsonMatch_NonGreedy(text) ==
    LET opens  == { i \in DOMAIN text : text[i] = "{" }
        closes == { i \in DOMAIN text : text[i] = "}" }
    IN  IF opens # {} /\ closes # {} /\ Min(opens) < Max(closes)
        THEN SubSeq(text, Min(opens), Min({ j \in closes : j > Min(opens) }))
        ELSE <<>>

\* re.search(r'\{.*\}', text, re.DOTALL): the leftmost "{" that has a "}" after
\* it, up to the last "}"; <<>> when there is no match.
JsonMatch(text) ==
    LET opens  == { i \in DOMAIN text : text[i] = "{" }
        closes == { i \in DOMAIN text : text[i] = "}" }
    IN  IF opens # {} /\ closes # {} /\ Min(opens) < Max(closes)
        THEN SubSeq(text, Min(opens), Max(closes))
        ELSE <<>>

\* json.loads(span) raises JSONDecodeError unless the span is one object.
Parses(span) == span = <<"{", "J", "}">> \/ span = <<"{", "}">>

\* json.loads(span)
Loads(span, obj) == IF span = <<"{", "}">> THEN EmptyObject ELSE obj

\* `if member.get("name")`
HasName(member) == "name" \in DOMAIN member /\ member.name # <<>>

\* the add_family_member call made for one extracted member
MemberCall(member) ==
    Call("add_family_member",
         [ name     |-> member.name,
           relation |-> Get(member, "relation", "family"),
           details  |-> Get(member, "details", "") ])

\* `for x in extracted.get(field, []): mutator(x)` as the steps it performs:
\* iterating null raises TypeError, a missing field iterates nothing.
LoopSteps(extracted, field, op) ==
    IF field \notin DOMAIN extracted THEN <<>>
    ELSE IF extracted[field].t = "null" THEN << <<"raise", "TypeError">> >>
    ELSE LET items == IF field = "family_members"
                      THEN SelectSeq(extracted[field].v, HasName)
                      ELSE extracted[field].v
         IN  [ i \in DOMAIN items |->
                 <<"call", IF field = "family_members"
                           THEN MemberCall(items[i])
                           ELSE Call(op, items[i])>> ]

\* the five loops, in the order of the code
ExtractSteps(extracted) ==
    LoopSteps(extracted, "family_members", "add_family_member")
      \o LoopSteps(extracted, "interests", "add_interest")
      \o LoopSteps(extracted, "health_mentions", "add_health_note")
      \o LoopSteps(extracted, "important_stories", "add_story")
      \o LoopSteps(extracted, "topics_discussed", "add_recent_topic")

\* Runs the steps until one raises.  The failAt-th save() of the run ends as
\* wkind, every other one succeeds (failAt = 0: all succeed).
RECURSIVE Fold(_, _, _, _, _)
Fold(st, steps, failAt, wkind, now) ==
    IF Len(steps) = 0 \/ st.exc # "none" THEN st
    ELSE LET s == Head(steps)
         IN  IF s[1] = "raise" THEN [st EXCEPT !.exc = s[2]]
             ELSE LET w == IF st.writes + 1 = failAt THEN wkind ELSE "ok"
                      o == Apply(s[2], st.m, st.file, now, w)
                  IN  Fold([ m       |-> o.m,
                             file    |-> o.file,
                             exc     |-> o.exc,
                             writes  |-> st.writes + (IF o.saved THEN 1 ELSE 0),
                             entered |-> Append(st.entered, s[2]) ],
                           Tail(steps), failAt, wkind, now)

FoldStart(m, file) ==
    [m |-> m, file |-> file, exc |-> "none", writes |-> 0, entered |-> <<>>]

\* extract_memories_from_conversation(user_memory, transcript) for the provider
\* response resp: the record and file it leaves, the dict it returns, the
\* exception it caught ("none" if none) and the mutator calls it entered.
Extract(m, file, resp, failAt, wkind, now) ==
    LET nothing(exc) == [ m |-> m, file |-> file, result |-> EmptyObject,
                          caught |-> exc, entered |-> <<>> ]
        span == JsonMatch(resp.text)
    IN  IF resp.raises THEN nothing("ProviderError")
        ELSE IF Len(span) = 0 THEN nothing("none")
        ELSE IF ~Parses(span) THEN nothing("JSONDecodeError")
        ELSE LET extracted == Loads(span, resp.obj)
                 st == Fold(FoldStart(m, file), ExtractSteps(extracted), failAt, wkind, now)
             IN  [ m       |-> st.m,
                   file    |-> st.file,
                   result  |-> IF st.exc = "none" THEN extracted ELSE EmptyObject,
                   caught  |-> st.exc,
                   entered |-> st.entered ]

(* Session brain: GrandPalBrain *)

\* get_context_for_conversation that lists every family member (family for family[:5])
ContextFor_AllFamily(um) ==
    LET m         == um.memories
        profile   == Get(m, "profile", EmptyObject)
        family    == Get(profile, "family_members", <<>>)
        health    == Get(profile, "health_notes", <<>>)
        interests == Get(profile, "interests", <<>>)
        recent    == Get(m, "recent_topics", <<>>)
        count     == Get(m, "conversation_count", 0)
        shown     == family
    IN  << <<"name", um.user_name>> >>
        \o (IF Len(family) > 0
            THEN << <<"family", [ i \in DOMAIN shown |->
                                    << shown[i].name, shown[i].relation,
                                       IF Truthy(shown[i].details)
                                       THEN shown[i].details ELSE "" >> ]>> >>
            ELSE <<>>)
        \o (IF Len(health) > 0 THEN << <<"health", LastN(health, ShownHealth)>> >> ELSE <<>>)
        \o (IF Len(interests) > 0 THEN << <<"interests", FirstN(interests, ShownInterests)>> >> ELSE <<>>)
        \o (IF Len(recent) > 0 THEN << <<"topics", LastN(recent, ShownTopics)>> >> ELSE <<>>)
        \o (IF count > 0 THEN << <<"count", count, um.user_name>> >> ELSE <<>>)

\* UserMemory.get_context_for_conversation: the lines of the context string
ContextFor(um) ==
    LET m         == um.memories
        profile   == Get(m, "profile", EmptyObject)
        family    == Get(profile, "family_members", <<>>)
        health    == Get(profile, "health_notes", <<>>)
        interests == Get(profile, "interests", <<>>)
        recent    == Get(m, "recent_topics", <<>>)
        count     == Get(m, "conversation_count", 0)
        shown     == FirstN(family, ShownFamily)
    IN  << <<"name", um.user_name>> >>
        \o (IF Len(family) > 0
            THEN << <<"family", [ i \in DOMAIN shown |->
                                    << shown[i].name, shown[i].relation,
                                       IF Truthy(shown[i].details)
                                       THEN shown[i].details ELSE "" >> ]>> >>
            ELSE <<>>)
        \o (IF Len(health) > 0 THEN << <<"health", LastN(health, ShownHealth)>> >> ELSE <<>>)
        \o (IF Len(interests) > 0 THEN << <<"interests", FirstN(interests, ShownInterests)>> >> ELSE <<>>)
        \o (IF Len(recent) > 0 THEN << <<"topics", LastN(recent, ShownTopics)>> >> ELSE <<>>)
        \o (IF count > 0 THEN << <<"count", count, um.user_name>> >> ELSE <<>>)

\* load_companion_prompt: the persona template with the name substituted and
\* the context appended
LoadCompanionPrompt(user_name, memory_context) ==
    [persona_for |-> user_name, remembered |-> memory_context]

\* get_or_create_user_memory: the UserMemory registered for user_id
GetOrCreateUserMemory(registry, files, user_id, user_name, now) ==
    IF user_id \in DOMAIN registry THEN registry[user_id]
    ELSE [ user_name |-> user_name,
           memories  |-> LoadMemories(files[user_id], user_name, now) ]

\* get_greeting that always takes the first-meeting branch
GreetingPrompt_AlwaysFirst(brain, um) == <<"first_greeting", brain.user_name>>

\* GrandPalBrain.get_greeting: the prompt it sends through get_response
GreetingPrompt(brain, um) ==
    LET m          == um.memories
        conv_count == Get(m, "conversation_count", 1)
        recent     == Get(m, "recent_topics", <<>>)
        family     == Get(Get(m, "profile", EmptyObject), "family_members", <<>>)
        known      == FirstN(family, 3)
    IN  IF conv_count = 1
        THEN <<"first_greeting", brain.user_name>>
        ELSE <<"returning_greeting", brain.user_name, conv_count,
               LastN(recent, 2), [ i \in DOMAIN known |-> known[i].name ]>>

\* get_response that records the fallback text as an assistant turn
GetResponse_RecordsFallback(brain, content, modelOK, text) ==
    LET h1 == Append(brain.history, <<"user", content>>)
    IN  IF modelOK
        THEN [ history |-> Append(h1, <<"assistant", <<"text", text>> >>),
               text    |-> <<"text", text>> ]
        ELSE [ history |-> Append(h1, <<"assistant", <<"fallback", brain.user_name>> >>),
               text    |-> <<"fallback", brain.user_name>> ]

\* GrandPalBrain.get_response: the history it leaves and the text it returns;
\* a failing model call leaves the user turn and returns the fallback.
GetResponse(brain, content, modelOK, text) ==
    LET h1 == Append(brain.history, <<"user", content>>)
    IN  IF modelOK
        THEN [ history |-> Append(h1, <<"assistant", <<"text", text>> >>),
               text    |-> <<"text", text>> ]
        ELSE [ history |-> h1, text |-> <<"fallback", brain.user_name>> ]

\* GrandPalBrain.analyze_emotion: what json.loads gave, or the default
EmotionOutcomes == { "raises", "object", "scalar" }

AnalyzeEmotion(outcome) ==
    CASE outcome = "object" -> <<"dict", "sad", 9, TRUE>>
      [] outcome = "scalar" -> <<"scalar", "sad", 9, TRUE>>
      [] OTHER              -> <<"dict", "neutral", 5, FALSE>>

\* GrandPalBrain.get_conversation_transcript
Transcript(brain) ==
    [ i \in DOMAIN brain.history |->
        << IF brain.history[i][1] = "assistant" THEN <<"GrandPal">> ELSE brain.user_name,
           brain.history[i][2] >> ]

\* dict without one key / with one key set
Without(f, k) == [ x \in DOMAIN f \ {k} |-> f[x] ]
With(f, k, v) == [ x \in DOMAIN f \cup {k} |-> IF x = k THEN v ELSE f[x] ]

\* GrandPalBrain.__init__ that renders the system prompt from the context
\* computed before increment_conversation
NewSession_ContextBeforeIncrement(sessions, registry, files, session_id, user_name, now, w) ==
    LET user_id == UserIdOf(user_name)
        um0 == GetOrCreateUserMemory(registry, files, user_id, user_name, now)
        o   == IncrementConversation(um0.memories, files[user_id], now, w)
        um1 == [um0 EXCEPT !.memories = o.m]
        brain == [ user_id       |-> user_id,
                   user_name     |-> user_name,
                   history       |-> <<>>,
                   system_prompt |-> LoadCompanionPrompt(user_name, ContextFor(um0)) ]
    IN  [ sessions |-> IF o.exc = "none" THEN With(sessions, session_id, brain)
                       ELSE sessions,
          registry |-> With(registry, user_id, um1),
          files    |-> [files EXCEPT ![user_id] = o.file],
          exc      |-> o.exc,
          isNew    |-> o.exc = "none",
          entered  |-> << Call("increment_conversation", <<>>) >> ]

\* active_sessions[session_id] = GrandPalBrain(user_id, user_name): the
\* registries and files it leaves, the exception it raised, the mutator calls
\* it entered.
NewSession(sessions, registry, files, session_id, user_name, now, w) ==
    LET user_id == UserIdOf(user_name)
        um0 == GetOrCreateUserMemory(registry, files, user_id, user_name, now)
        o   == IncrementConversation(um0.memories, files[user_id], now, w)
        um1 == [um0 EXCEPT !.memories = o.m]
        brain == [ user_id       |-> user_id,
                   user_name     |-> user_name,
                   history       |-> <<>>,
                   system_prompt |-> LoadCompanionPrompt(user_name, ContextFor(um1)) ]
    IN  [ sessions |-> IF o.exc = "none" THEN With(sessions, session_id, brain)
                       ELSE sessions,
          registry |-> With(registry, user_id, um1),
          files    |-> [files EXCEPT ![user_id] = o.file],
          exc      |-> o.exc,
          isNew    |-> o.exc = "none",
          entered  |-> << Call("increment_conversation", <<>>) >> ]

\* get_or_create_session without the membership test
GetOrCreateSession_AlwaysCreate(sessions, registry, files, session_id, user_name, now, w) ==
    NewSession(sessions, registry, files, session_id, user_name, now, w)

\* get_or_create_session(session_id, user_name)
GetOrCreateSession(sessions, registry, files, session_id, user_name, now, w) ==
    IF session_id \in DOMAIN sessions
    THEN [ sessions |-> sessions, registry |-> registry, files |-> files,
           exc |-> "none", isNew |-> FALSE, entered |-> <<>> ]
    ELSE NewSession(sessions, registry, files, session_id, user_name, now, w)

\* what end_session leaves if it deletes the session only after an extraction
\* that caught nothing
AfterExtraction_KeepOnFailure(sessions, registry, files, session_id, user_id, transcript, x) ==
    [ sessions   |-> IF x.caught = "none" THEN Without(sessions, session_id) ELSE sessions,
      registry   |-> [registry EXCEPT ![user_id].memories = x.m],
      files      |-> [files EXCEPT ![user_id] = x.file],
      exc        |-> "none",
      ran        |-> TRUE,
      transcript |-> transcript,
      result     |-> x.result,
      caught     |-> x.caught,
      entered    |-> x.entered ]

\* what end_session leaves once the extraction x has returned: the session is
\* deleted, the record and the file are as the extraction left them
AfterExtraction(sessions, registry, files, session_id, user_id, transcript, x) ==
    [ sessions   |-> Without(sessions, session_id),
      registry   |-> [registry EXCEPT ![user_id].memories = x.m],
      files      |-> [files EXCEPT ![user_id] = x.file],
      exc        |-> "none",
      ran        |-> TRUE,
      transcript |-> transcript,
      result     |-> x.result,
      caught     |-> x.caught,
      entered    |-> x.entered ]

\* end_session without the membership test: an unknown id raises KeyError
EndSession_NoGuard(sessions, registry, files, session_id, resp, failAt, wkind, now) ==
    IF session_id \notin DOMAIN sessions
    THEN [ sessions |-> sessions, registry |-> registry, files |-> files,
           exc |-> "KeyError", ran |-> FALSE, transcript |-> <<>>,
           result |-> EmptyObject, caught |-> "none", entered |-> <<>> ]
    ELSE AfterExtraction(sessions, registry, files, session_id,
                         sessions[session_id].user_id, Transcript(sessions[session_id]),
                         Extract(registry[sessions[session_id].user_id].memories,
                                 files[sessions[session_id].user_id],
                                 resp, failAt, wkind, now))

\* end_session(session_id): extraction first, removal after; nothing for an
\* unknown id.  `ran` tells whether the extractor was called.
EndSession(sessions, registry, files, session_id, resp, failAt, wkind, now) ==
    IF session_id \notin DOMAIN sessions
    THEN [ sessions |-> sessions, registry |-> registry, files |-> files,
           exc |-> "none", ran |-> FALSE, transcript |-> <<>>,
           result |-> EmptyObject, caught |-> "none", entered |-> <<>> ]
    ELSE IF Len(sessions[session_id].history) > 0
    THEN AfterExtraction(sessions, registry, files, session_id,
                         sessions[session_id].user_id, Transcript(sessions[session_id]),
                         Extract(registry[sessions[session_id].user_id].memories,
                                 files[sessions[session_id].user_id],
                                 resp, failAt, wkind, now))
    ELSE [ sessions |-> Without(sessions, session_id), registry |-> registry,
           files |-> files, exc |-> "none", ran |-> FALSE,
           transcript |-> <<>>, result |-> EmptyObject,
           caught |-> "none", entered |-> <<>> ]

(* HTTP handlers: main.py *)

\* send_message without `except HTTPException: raise`: the 404 becomes a 500
SendMessageHandler_NoReraise(sessions, session_id, message, modelOK, emotionOutcome) ==
    IF session_id \notin DOMAIN sessions
    THEN [ sessions |-> sessions, status |-> 500,
           response |-> <<"none">>, emotion |-> <<"none">> ]
    ELSE LET brain   == sessions[session_id]
             r       == GetResponse(brain, <<"msg", message>>, modelOK, "reply")
             emotion == AnalyzeEmotion(emotionOutcome)
         IN  [ sessions |-> [sessions EXCEPT ![session_id].history = r.history],
               status   |-> IF emotion[1] = "dict" THEN 200 ELSE 500,
               response |-> r.text,
               emotion  |-> emotion ]

\* send_message: 404 for an unknown session; 500 when MessageResponse rejects
\* an emotion that is not a dict.
SendMessageHandler(sessions, session_id, message, modelOK, emotionOutcome) ==
    IF session_id \notin DOMAIN sessions
    THEN [ sessions |-> sessions, status |-> 404,
           response |-> <<"none">>, emotion |-> <<"none">> ]
    ELSE LET brain   == sessions[session_id]
             r       == GetResponse(brain, <<"msg", message>>, modelOK, "reply")
             emotion == AnalyzeEmotion(emotionOutcome)
         IN  [ sessions |-> [sessions EXCEPT ![session_id].history = r.history],
               status   |-> IF emotion[1] = "dict" THEN 200 ELSE 500,
               response |-> r.text,
               emotion  |-> emotion ]

\* start_conversation after get_or_create_session returned g: the greeting
\* goes through get_response; an exception becomes a 500
Greet(g, session_id, modelOK) ==
    IF g.exc # "none"
    THEN [ sessions |-> g.sessions, registry |-> g.registry, files |-> g.files,
           status |-> 500, greeting |-> <<"none">>, prompt |-> <<"none">>,
           entered |-> g.entered, isNew |-> g.isNew ]
    ELSE [ sessions |-> [g.sessions EXCEPT ![session_id].history =
                            GetResponse(g.sessions[session_id],
                                        GreetingPrompt(g.sessions[session_id],
                                                       g.registry[g.sessions[session_id].user_id]),
                                        modelOK, "hello").history],
           registry |-> g.registry,
           files    |-> g.files,
           status   |-> 200,
           greeting |-> GetResponse(g.sessions[session_id], <<"none">>, modelOK, "hello").text,
           prompt   |-> GreetingPrompt(g.sessions[session_id],
                                       g.registry[g.sessions[session_id].user_id]),
           entered  |-> g.entered,
           isNew    |-> g.isNew ]

\* start_conversation: a fresh uuid, the session, the greeting
StartConversationHandler(sessions, registry, files, session_id, user_name, now, w, modelOK) ==
    Greet(GetOrCreateSession(sessions, registry, files, session_id, user_name, now, w),
          session_id, modelOK)

\* the handler's answer for what end_session did
Ended(e) == e @@ [ status |-> IF e.exc = "none" THEN 200 ELSE 500 ]

\* end_conversation_endpoint
EndConversationHandler(sessions, registry, files, session_id, resp, failAt, wkind, now) ==
    Ended(EndSession(sessions, registry, files, session_id, resp, failAt, wkind, now))

(* What the provider can answer to the extraction prompt *)

MemberEm     == [name |-> <<"E", "m">>, relation |-> "granddaughter"]
MemberEmMore == [name |-> <<"e", "m">>, relation |-> "granddaughter", details |-> "soccer"]
MemberBo     == [name |-> <<"B", "o">>, relation |-> None, details |-> None]
MemberNoName == [relation |-> "son"]

Objects ==
    { [ family_members |-> List(<<MemberEm, MemberEmMore>>), emotional_state |-> "happy" ],
      [ family_members |-> List(<<MemberEmMore>>), interests |-> Null,
        emotional_state |-> "happy" ],
      [ interests |-> List(<< <<"G", "a">>, <<"g", "a">> >>),
        topics_discussed |-> List(<<1>>), emotional_state |-> "happy" ],
      [ health_mentions |-> List(<<1>>), important_stories |-> List(<<1>>),
        topics_discussed |-> List(<<2>>), emotional_state |-> "sad" ],
      [ family_members |-> Null, emotional_state |-> "sad" ],
      [ family_members |-> List(<<MemberNoName, MemberBo>>), health_mentions |-> Null,
        emotional_state |-> "sad" ],
      [ emotional_state |-> "neutral" ] }

Texts ==
    { <<"p">>, <<"}", "p", "{">>, <<"{", "p", "}">>,
      <<"{", "J", "}", "p", "{", "J", "}">>, <<"{", "}">>,
      <<"{", "J", "}">>, <<"p", "{", "J", "}", "p">> }

HasObject(text) == \E i \in DOMAIN text : text[i] = "J"

NoResponse == [raises |-> TRUE, text |-> <<>>, obj |-> EmptyObject]

ExtractResponses ==
    { NoResponse }
    \cup { [raises |-> FALSE, text |-> t, obj |-> EmptyObject] : t \in { x \in Texts : ~HasObject(x) } }
    \cup { [raises |-> FALSE, text |-> <<"{", "J", "}">>, obj |-> o] : o \in Objects }
    \cup { [raises |-> FALSE, text |-> t, obj |-> [emotional_state |-> "neutral"]] :
              t \in { x \in Texts : HasObject(x) } }

SessionIds == 1..MaxSessions

(* The service: Init and one action per handler *)

InitFiles == { Absent, Corrupt, Json(EmptyObject) }

Init ==
    /\ clock = 1
    /\ disk \in [UserIds -> InitFiles]
    /\ user_memories = <<>>
    /\ active_sessions = <<>>
    /\ next_uuid = 0
    /\ calls = [u \in UserIds |-> [op \in MutatorOps |-> <<>>]]
    /\ created = [u \in UserIds |-> <<>>]
    /\ faults = 0
    /\ ops = 0
    /\ reply = [op |-> "init"]
    /\ tasks = <<>>

Tick ==
    /\ clock < MaxClock
    /\ clock' = clock + 1
    /\ reply' = [op |-> "tick"]
    /\ UNCHANGED <<disk, user_memories, active_sessions, next_uuid, calls, created, faults, ops, tasks>>

\* the writes a caller may see fail, given how many have failed already
Faulty(kinds) == IF faults < MaxFaults THEN kinds ELSE { k \in kinds : k = "ok" }

\* OSError raised by a write counts as one failed write
CountFault(exc) == IF exc = "OSError" THEN faults + 1 ELSE faults

\* the call history of user_id extended by the calls entered
LogCalls(user_id, entered) ==
    [ calls EXCEPT ![user_id] =
        [ op \in MutatorOps |->
            LET mine == SelectSeq(entered, LAMBDA c : c[1] = op)
            IN  @[op] \o [ i \in DOMAIN mine |-> mine[i][2] ] ] ]

\* the arguments of the calls of one mutator, in call order
ArgsOf(user_id, op) == calls[user_id][op]

RECURSIVE SumLen(_, _)
SumLen(f, S) == IF S = {} THEN 0
                ELSE LET x == CHOOSE y \in S : TRUE IN Len(f[x]) + SumLen(f, S \ {x})

\* the number of mutator calls entered on user_id's record
CallCount(user_id) == SumLen(calls[user_id], MutatorOps)

StartConversation ==
    \E user_name \in UserNames, w \in Faulty(WriteOutcomes), modelOK \in BOOLEAN :
      \E h \in { StartConversationHandler(active_sessions, user_memories, disk,
                                           next_uuid + 1, user_name, clock, w, modelOK) } :
        LET session_id == next_uuid + 1
            user_id    == UserIdOf(user_name)
        IN  /\ next_uuid < MaxSessions
            /\ ops < MaxOps
            /\ ops' = ops + 1
            /\ next_uuid' = session_id
            /\ active_sessions' = h.sessions
            /\ user_memories' = h.registry
            /\ disk' = h.files
            /\ calls' = LogCalls(user_id, h.entered)
            /\ created' = IF h.isNew THEN [created EXCEPT ![user_id] = Append(@, session_id)]
                          ELSE created
            /\ reply' = [ op |-> "start", status |-> h.status, sid |-> session_id,
                          user |-> user_id, greeting |-> h.greeting, prompt |-> h.prompt ]
            /\ faults' = IF h.status = 500 THEN faults + 1 ELSE faults
            /\ UNCHANGED <<clock, tasks>>

SendMessage ==
    \E session_id \in SessionIds, modelOK \in BOOLEAN, emotionOutcome \in EmotionOutcomes :
      \E h \in { SendMessageHandler(active_sessions, session_id, "hi", modelOK, emotionOutcome) } :
            /\ ops < MaxOps
            /\ ops' = ops + 1
            /\ active_sessions' = h.sessions
            /\ reply' = [ op |-> "send", status |-> h.status, sid |-> session_id,
                          response |-> h.response, emotion |-> h.emotion ]
            /\ UNCHANGED <<clock, disk, user_memories, next_uuid, calls, created, faults, tasks>>

\* how the provider's answer reads: ghost classification of a response
ResponseClass(resp) ==
    IF resp.raises THEN "raises"
    ELSE IF ~\E i, j \in DOMAIN resp.text : i < j /\ resp.text[i] = "{" /\ resp.text[j] = "}"
         THEN "no_span"
    ELSE IF \E i, j \in DOMAIN resp.text :
               /\ i < j /\ resp.text[i] = "{" /\ resp.text[j] = "}"
               /\ \A k \in DOMAIN resp.text : (k < i \/ k > j) => resp.text[k] = "p"
               /\ \A k \in (i+1)..(j-1) : resp.text[k] = "J"
               /\ j - i <= 2
         THEN "object"
    ELSE "not_json"

\* what json.loads gave for the provider's answer (the empty object when
\* nothing was parsed)
Parsed(resp) ==
    IF resp.raises \/ Len(JsonMatch(resp.text)) = 0 \/ ~Parses(JsonMatch(resp.text))
    THEN EmptyObject
    ELSE Loads(JsonMatch(resp.text), resp.obj)

\* the number of save() calls an extraction of resp enters when none fails
Saves(m, file, resp, now) ==
    LET span == JsonMatch(resp.text)
    IN  IF resp.raises \/ Len(span) = 0 \/ ~Parses(span) THEN 0
        ELSE Fold(FoldStart(m, file), ExtractSteps(Loads(span, resp.obj)), 0, "ok", now).writes

\* which save() of an extraction fails, and how
WriteFaults(n) ==
    { <<0, "ok">> } \cup { <<k, wk>> : k \in 1..n, wk \in Faulty(WriteOutcomes) \ {"ok"} }

EndConversation ==
    \E session_id \in SessionIds :
      \E resp \in IF session_id \in DOMAIN active_sessions
                  THEN ExtractResponses ELSE { NoResponse } :
        LET known   == session_id \in DOMAIN active_sessions
            user_id == IF known THEN active_sessions[session_id].user_id ELSE <<>>
            n       == IF known
                       THEN Saves(user_memories[user_id].memories, disk[user_id], resp, clock)
                       ELSE 0
        IN  \E fault \in WriteFaults(n) :
            \E h \in { EndConversationHandler(active_sessions, user_memories, disk, session_id,
                                               resp, fault[1], fault[2], clock) } :
                /\ ops < MaxOps
                /\ ops' = ops + 1
                /\ active_sessions' = h.sessions
                /\ user_memories' = h.registry
                /\ disk' = h.files
                /\ calls' = IF known THEN LogCalls(user_id, h.entered) ELSE calls
                /\ reply' = [ op |-> "end", status |-> h.status, sid |-> session_id,
                              user |-> user_id, ran |-> h.ran, transcript |-> h.transcript,
                              class |-> IF h.ran THEN ResponseClass(resp) ELSE "none",
                              empty |-> h.result = EmptyObject, caught |-> h.caught ]
                /\ faults' = CountFault(h.caught)
                /\ UNCHANGED <<clock, next_uuid, created, tasks>>

Next == StartConversation \/ SendMessage \/ EndConversation

Spec == Init /\ [][Next]_vars

TypeOK ==
    /\ clock \in 1..MaxClock
    /\ next_uuid \in 0..MaxSessions
    /\ DOMAIN active_sessions \subseteq SessionIds
    /\ DOMAIN user_memories \subseteq UserIds

(* The memory store on its own: direct calls of the UserMemory API *)

StoreCalls ==
    { Call("increment_conversation", <<>>) }
    \cup { Call("add_family_member", a) :
             a \in { [name |-> <<"E", "m">>, relation |-> "granddaughter", details |-> ""],
                     [name |-> <<"e", "m">>, relation |-> "granddaughter", details |-> "soccer"],
                     [name |-> <<"e", "m">>, relation |-> "son", details |-> ""],
                     [name |-> <<"B", "o">>, relation |-> "son", details |-> None] } }
    \cup { Call("add_interest", i) : i \in Interests }
    \cup { Call("add_health_note", n) : n \in Notes }
    \cup { Call("add_recent_topic", t) : t \in Topics }
    \cup { Call("add_story", t) : t \in Stories }

\* get_or_create_user_memory(user_id, user_name)
StoreOpen ==
    \E user_name \in UserNames :
        LET user_id == UserIdOf(user_name)
        IN  /\ user_id \notin DOMAIN user_memories
            /\ user_memories' = With(user_memories, user_id,
                    GetOrCreateUserMemory(user_memories, disk, user_id, user_name, clock))
            /\ reply' = [op |-> "open", user |-> user_id]
            /\ UNCHANGED <<clock, disk, active_sessions, next_uuid, calls, created, faults, ops, tasks>>

\* one mutator call on a registered UserMemory
StoreCall ==
    \E user_id \in DOMAIN user_memories, c \in StoreCalls, w \in Faulty(WriteOutcomes) :
      \E o \in { Apply(c, user_memories[user_id].memories, disk[user_id], clock, w) } :
            /\ CallCount(user_id) < MaxCalls
            /\ user_memories' = [user_memories EXCEPT ![user_id].memories = o.m]
            /\ disk' = [disk EXCEPT ![user_id] = o.file]
            /\ calls' = LogCalls(user_id, <<c>>)
            /\ faults' = CountFault(o.exc)
            /\ reply' = [ op |-> "call", user |-> user_id, call |-> c,
                          exc |-> o.exc, saved |-> o.saved, was |-> disk[user_id].kind ]
            /\ UNCHANGED <<clock, active_sessions, next_uuid, created, ops, tasks>>

\* extract_memories_from_conversation on a registered UserMemory
StoreExtract ==
    \E user_id \in DOMAIN user_memories, resp \in ExtractResponses :
      \E fault \in WriteFaults(Saves(user_memories[user_id].memories, disk[user_id], resp, clock)) :
      \E x \in { Extract(user_memories[user_id].memories, disk[user_id],
                          resp, fault[1], fault[2], clock) } :
            /\ CallCount(user_id) + Len(x.entered) <= MaxCalls
            /\ user_memories' = [user_memories EXCEPT ![user_id].memories = x.m]
            /\ disk' = [disk EXCEPT ![user_id] = x.file]
            /\ calls' = LogCalls(user_id, x.entered)
            /\ faults' = CountFault(x.caught)
            /\ reply' = [ op |-> "extract", user |-> user_id, class |-> ResponseClass(resp),
                          empty |-> x.result = EmptyObject, caught |-> x.caught,
                          parsed |-> Parsed(resp), result |-> x.result,
                          entered |-> x.entered ]
            /\ UNCHANGED <<clock, active_sessions, next_uuid, created, ops, tasks>>

NextStore == Tick \/ StoreOpen \/ StoreCall \/ StoreExtract

SpecStore == Init /\ [][NextStore]_vars

(* The bounded lists past their caps: distinct notes, topics and stories *)

CapOf(op) ==
    CASE op = "add_health_note"  -> HealthCap
      [] op = "add_recent_topic" -> TopicCap
      [] OTHER                   -> StoryCap

\* the k-th call of a mutator adds the k-th of a series of distinct texts
BoundedAdd(op) ==
    \E user_id \in DOMAIN user_memories, w \in Faulty(WriteOutcomes) :
      \E k \in { Len(ArgsOf(user_id, op)) + 1 } :
      \E o \in { Apply(Call(op, k), user_memories[user_id].memories, disk[user_id], clock, w) } :
        LET c == Call(op, k)
        IN  /\ k <= CapOf(op) + OverCap
            /\ user_memories' = [user_memories EXCEPT ![user_id].memories = o.m]
            /\ disk' = [disk EXCEPT ![user_id] = o.file]
            /\ calls' = LogCalls(user_id, <<c>>)
            /\ faults' = CountFault(o.exc)
            /\ reply' = [ op |-> "call", user |-> user_id, call |-> c,
                          exc |-> o.exc, saved |-> o.saved ]
            /\ UNCHANGED <<clock, active_sessions, next_uuid, created, ops, tasks>>

AddHealthNoteCall  == BoundedAdd("add_health_note")
AddRecentTopicCall == BoundedAdd("add_recent_topic")
AddStoryCall       == BoundedAdd("add_story")

\* an extraction whose answer lists the next note, story and topic
ExtractNext ==
    \E user_id \in DOMAIN user_memories :
        LET resp == [ raises |-> FALSE, text |-> <<"p", "{", "J", "}">>,
                      obj |-> [ health_mentions   |-> List(<<Len(ArgsOf(user_id, "add_health_note")) + 1>>),
                                important_stories |-> List(<<Len(ArgsOf(user_id, "add_story")) + 1>>),
                                topics_discussed  |-> List(<<Len(ArgsOf(user_id, "add_recent_topic")) + 1>>) ] ]
        IN  \E fault \in WriteFaults(Saves(user_memories[user_id].memories, disk[user_id], resp, clock)) :
            \E x \in { Extract(user_memories[user_id].memories, disk[user_id],
                                resp, fault[1], fault[2], clock) } :
                /\ Len(ArgsOf(user_id, "add_health_note")) < HealthCap + OverCap
                /\ Len(ArgsOf(user_id, "add_story")) < StoryCap + OverCap
                /\ Len(ArgsOf(user_id, "add_recent_topic")) < TopicCap + OverCap
                /\ user_memories' = [user_memories EXCEPT ![user_id].memories = x.m]
                /\ disk' = [disk EXCEPT ![user_id] = x.file]
                /\ calls' = LogCalls(user_id, x.entered)
                /\ faults' = CountFault(x.caught)
                /\ reply' = [ op |-> "extract", user |-> user_id, class |-> ResponseClass(resp),
                              empty |-> x.result = EmptyObject, caught |-> x.caught ]
                /\ UNCHANGED <<clock, active_sessions, next_uuid, created, ops, tasks>>

NextBounded ==
    StoreOpen \/ AddHealthNoteCall \/ AddRecentTopicCall \/ AddStoryCall \/ ExtractNext

SpecBounded == Init /\ [][NextBounded]_vars

(* The context string on its own: get_context_for_conversation applied to
   records whose lists are longer than what the string shows *)

Digits == <<"1", "2", "3", "4", "5", "6", "7", "8", "9">>

\* n family members with distinct names, every other one with details
FamilyOf(n) ==
    [ k \in 1..n |-> [ name     |-> <<"N", Digits[k]>>,
                       relation |-> IF k % 3 = 0 THEN "son" ELSE "granddaughter",
                       details  |-> IF k % 2 = 1 THEN "soccer" ELSE "" ] ]

\* n distinct interests
InterestsOf(n) == [ k \in 1..n |-> <<"i", Digits[k]>> ]

\* the records the mutators can have built, by the lengths of their lists
ContextRecords ==
    { [ DefaultMemories(<<"a", "_", "b">>, 1) EXCEPT
          !.profile.family_members = FamilyOf(f),
          !.profile.health_notes   = [k \in 1..h |-> k],
          !.profile.interests      = InterestsOf(i),
          !.recent_topics          = [k \in 1..t |-> k],
          !.conversation_count     = c ] :
        f \in 0..(ShownFamily + OverCap), h \in 0..(ShownHealth + OverCap),
        i \in 0..(ShownInterests + OverCap), t \in 0..(ShownTopics + OverCap),
        c \in 0..MaxSessions }

InitContext ==
    /\ clock = 1
    /\ \E m \in ContextRecords \cup {EmptyObject} :
          /\ user_memories = [u \in UserIds |-> [user_name |-> <<"A", " ", "b">>, memories |-> m]]
          /\ disk = [u \in UserIds |-> Json(m)]
    /\ active_sessions = <<>>
    /\ next_uuid = 0
    /\ calls = [u \in UserIds |-> [op \in MutatorOps |-> <<>>]]
    /\ created = [u \in UserIds |-> <<>>]
    /\ faults = 0
    /\ ops = 0
    /\ reply = [op |-> "init"]
    /\ tasks = <<>>

\* user_memory.get_context_for_conversation()
GetContextForConversation ==
    \E user_id \in DOMAIN user_memories :
        /\ reply' = [ op |-> "context", user |-> user_id,
                      lines |-> ContextFor(user_memories[user_id]) ]
        /\ UNCHANGED <<clock, disk, user_memories, active_sessions, next_uuid,
                       calls, created, faults, ops, tasks>>

NextContext == GetContextForConversation

SpecContext == InitContext /\ [][NextContext]_vars

(* The session brain on its own: direct calls of get_or_create_session and
   of the methods of the GrandPalBrain it returns *)

\* get_or_create_session(session_id, user_name), with any session id
CreateSession ==
    \E session_id \in SessionIds, user_name \in UserNames, w \in Faulty(WriteOutcomes) :
      \E g \in { GetOrCreateSession(active_sessions, user_memories, disk,
                                     session_id, user_name, clock, w) } :
            /\ ops < MaxOps
            /\ ops' = ops + 1
            /\ active_sessions' = g.sessions
            /\ user_memories' = g.registry
            /\ disk' = g.files
            /\ calls' = LogCalls(UserIdOf(user_name), g.entered)
            /\ created' = IF g.isNew
                          THEN [created EXCEPT ![UserIdOf(user_name)] = Append(@, session_id)]
                          ELSE created
            /\ faults' = CountFault(g.exc)
            /\ reply' = [ op |-> "create", sid |-> session_id, name |-> user_name,
                          exc |-> g.exc, isNew |-> g.isNew,
                          brain |-> IF g.exc = "none" THEN g.sessions[session_id]
                                    ELSE EmptyObject ]
            /\ UNCHANGED <<clock, next_uuid, tasks>>

\* brain.get_response(message)
Respond ==
    \E session_id \in DOMAIN active_sessions, modelOK \in BOOLEAN :
      \E r \in { GetResponse(active_sessions[session_id], <<"msg", "hi">>, modelOK, "reply") } :
            /\ ops < MaxOps
            /\ ops' = ops + 1
            /\ active_sessions' = [active_sessions EXCEPT ![session_id].history = r.history]
            /\ reply' = [ op |-> "respond", sid |-> session_id, text |-> r.text ]
            /\ UNCHANGED <<clock, disk, user_memories, next_uuid, calls, created, faults, tasks>>

\* brain.get_greeting()
GetGreeting ==
    \E session_id \in DOMAIN active_sessions, modelOK \in BOOLEAN :
      \E r \in { GetResponse(active_sessions[session_id],
                               GreetingPrompt(active_sessions[session_id],
                                              user_memories[active_sessions[session_id].user_id]),
                               modelOK, "hello") } :
            /\ ops < MaxOps
            /\ ops' = ops + 1
            /\ active_sessions' = [active_sessions EXCEPT ![session_id].history = r.history]
            /\ reply' = [ op |-> "greeting", sid |-> session_id, text |-> r.text ]
            /\ UNCHANGED <<clock, disk, user_memories, next_uuid, calls, created, faults, tasks>>

NextBrain == CreateSession \/ Respond \/ GetGreeting

SpecBrain == Init /\ [][NextBrain]_vars

(* Overlapping end_conversation requests: each request is a coroutine of the
   one event loop, which runs a coroutine until it suspends or finishes *)

\* `await brain.save_memories()` that hands control back to the event loop
ExtractionSuspends_AtAwait == TRUE

\* Whether `await brain.save_memories()` suspends end_session: the awaited
\* coroutines (save_memories, extract_memories_from_conversation) await nothing
\* that suspends, model.generate_content being a plain blocking call.
ExtractionSuspends == FALSE

\* an end_session coroutine that has not started yet
NewTask(session_id, overlapped) ==
    [ sid |-> session_id, pc |-> "called", status |-> 0, ran |-> FALSE,
      removed |-> FALSE, overlapped |-> overlapped, brain |-> EmptyObject ]

\* the coroutine ran the whole handler h without suspending
Completed(task, sessions, h) ==
    [ task     |-> [ task EXCEPT !.pc = "done", !.status = h.status, !.ran = h.ran,
                                 !.removed = task.sid \in DOMAIN sessions ],
      sessions |-> h.sessions, registry |-> h.registry, files |-> h.files,
      caught   |-> h.caught, entered |-> h.entered ]

\* the coroutine suspended at the await, holding `brain`
Suspended(task, sessions, registry, files) ==
    [ task     |-> [ task EXCEPT !.pc = "awaiting", !.brain = sessions[task.sid] ],
      sessions |-> sessions, registry |-> registry, files |-> files,
      caught   |-> "none", entered |-> <<>> ]

\* the coroutine resumed after the extraction e: `del active_sessions[session_id]`
\* raises KeyError if the session is gone, and the handler answers 500
Resumed(task, sessions, e) ==
    [ task     |-> [ task EXCEPT !.pc = "done", !.ran = TRUE, !.brain = EmptyObject,
                                 !.status = IF task.sid \in DOMAIN sessions THEN 200 ELSE 500,
                                 !.removed = task.sid \in DOMAIN sessions ],
      sessions |-> e.sessions, registry |-> e.registry, files |-> e.files,
      caught   |-> e.caught, entered |-> e.entered ]

\* whether the next step of the coroutine runs the extraction
RunsExtraction(task, sessions) ==
    \/ task.pc = "awaiting"
    \/ task.pc = "called" /\ task.sid \in DOMAIN sessions /\ ~ExtractionSuspends

\* the user whose record the coroutine works on
TaskUser(task, sessions) ==
    IF task.pc = "awaiting" THEN task.brain.user_id
    ELSE IF task.sid \in DOMAIN sessions THEN sessions[task.sid].user_id
    ELSE <<>>

\* one turn of the event loop on an end_conversation coroutine: from where it
\* is to its next suspension point or to its end
EndTaskStep(task, sessions, registry, files, resp, failAt, wkind, now) ==
    IF task.pc = "called" /\ task.sid \in DOMAIN sessions /\ ExtractionSuspends
    THEN Suspended(task, sessions, registry, files)
    ELSE IF task.pc = "called"
    THEN Completed(task, sessions,
                   EndConversationHandler(sessions, registry, files, task.sid,
                                          resp, failAt, wkind, now))
    ELSE Resumed(task, sessions,
                 AfterExtraction(sessions, registry, files, task.sid,
                                 task.brain.user_id, Transcript(task.brain),
                                 Extract(registry[task.brain.user_id].memories,
                                         files[task.brain.user_id],
                                         resp, failAt, wkind, now)))

\* an end_conversation request for a registered session arrives
EndCall ==
    \E session_id \in DOMAIN active_sessions :
        /\ Len(tasks) < MaxTasks
        /\ tasks' = Append(tasks,
                NewTask(session_id,
                        \E t \in DOMAIN tasks :
                            tasks[t].sid = session_id /\ tasks[t].pc # "done"))
        /\ reply' = [op |-> "end_called", sid |-> session_id]
        /\ UNCHANGED <<clock, disk, user_memories, active_sessions, next_uuid,
                       calls, created, faults, ops>>

\* the event loop runs one of the coroutines that are not done
EndRun ==
    \E t \in { i \in DOMAIN tasks : tasks[i].pc # "done" } :
      \E resp \in IF RunsExtraction(tasks[t], active_sessions)
                  THEN ExtractResponses ELSE { NoResponse } :
        LET runs    == RunsExtraction(tasks[t], active_sessions)
            user_id == TaskUser(tasks[t], active_sessions)
            n       == IF runs
                       THEN Saves(user_memories[user_id].memories, disk[user_id], resp, clock)
                       ELSE 0
        IN  \E fault \in WriteFaults(n) :
            \E h \in { EndTaskStep(tasks[t], active_sessions, user_memories, disk,
                                    resp, fault[1], fault[2], clock) } :
                /\ tasks' = [tasks EXCEPT ![t] = h.task]
                /\ active_sessions' = h.sessions
                /\ user_memories' = h.registry
                /\ disk' = h.files
                /\ calls' = IF runs THEN LogCalls(user_id, h.entered) ELSE calls
                /\ faults' = CountFault(h.caught)
                /\ reply' = [ op |-> "end_step", sid |-> tasks[t].sid, task |-> t,
                              pc |-> h.task.pc, status |-> h.task.status ]
                /\ UNCHANGED <<clock, next_uuid, created, ops>>

NextOverlap == StartConversation \/ EndCall \/ EndRun

SpecOverlap == Init /\ [][NextOverlap]_vars

(* Properties *)

\* the record held in memory for a registered user
Mem(user_id) == user_memories[user_id].memories

Range(seq) == { seq[i] : i \in DOMAIN seq }

\* a record that was default-initialized (it has every section)
IsFull(m) == {"profile", "stories", "recent_topics", "conversation_count"} \subseteq DOMAIN m

\* C1: whenever a mutator has returned normally, the user's durable record
\* equals the in-memory record field for field.
C1_ReadAfterWrite ==
    (reply.op = "call" /\ reply.exc = "none")
        => disk[reply.user] = Json(Mem(reply.user))

\* C2 as stated: every mutator call that has returned has set last_conversation
\* to the current time and has written the whole record.
C2_EveryCallStampsAndWrites ==
    (reply.op = "call" /\ reply.exc = "none")
        => /\ Mem(reply.user).last_conversation = clock
           /\ disk[reply.user] = Json(Mem(reply.user))

\* C2 amended: a mutator call that returns normally stamps last_conversation
\* with the current time and writes the whole record, except add_interest with
\* an interest already present ignoring case, which changes neither the record
\* nor the file.
C2_StampsAndWritesUnlessDuplicate ==
    [][ (reply'.op = "call" /\ reply'.exc = "none") =>
          LET u   == reply'.user
              c   == reply'.call
              dup == /\ c[1] = "add_interest"
                     /\ \E i \in DOMAIN Mem(u).profile.interests :
                            Lower(Mem(u).profile.interests[i]) = Lower(c[2])
          IN  IF dup
              THEN user_memories'[u] = user_memories[u] /\ disk'[u] = disk[u]
              ELSE /\ user_memories'[u].memories.last_conversation = clock'
                   /\ disk'[u] = Json(user_memories'[u].memories) ]_vars

C2_Witness ==
    /\ reply.op = "call" /\ reply.exc = "none" /\ reply.saved
    /\ clock = 2
    /\ IsFull(Mem(reply.user))
    /\ Mem(reply.user).created_at = 1
    /\ Mem(reply.user).last_conversation = 2
    /\ disk[reply.user] = Json(Mem(reply.user))

\* C3: on a default-initialized record health_notes is the last 10 notes added,
\* stories the last 20 summaries added and recent_topics the last 5 topics
\* added, each in call order; the lengths never exceed 10, 20 and 5.
C3_BoundedListsKeepMostRecent ==
    \A u \in DOMAIN user_memories :
        IsFull(Mem(u)) =>
            LET health  == Mem(u).profile.health_notes
                stories == Mem(u).stories
                topics  == Mem(u).recent_topics
            IN  /\ health = LastN(ArgsOf(u, "add_health_note"), 10)
                /\ [ i \in DOMAIN stories |-> stories[i].summary ]
                       = LastN(ArgsOf(u, "add_story"), 20)
                /\ topics = LastN(ArgsOf(u, "add_recent_topic"), 5)
                /\ Len(health) <= 10 /\ Len(stories) <= 20 /\ Len(topics) <= 5

C3_Witness ==
    \E u \in DOMAIN user_memories :
        /\ IsFull(Mem(u))
        /\ Len(ArgsOf(u, "add_health_note")) = 11 /\ Len(Mem(u).profile.health_notes) = 10
        /\ Len(ArgsOf(u, "add_story")) = 21 /\ Len(Mem(u).stories) = 20
        /\ Len(ArgsOf(u, "add_recent_topic")) = 6 /\ Len(Mem(u).recent_topics) = 5

\* the first spelling of every interest of s, in order of first appearance
RECURSIVE FirstSeen(_)
FirstSeen(s) ==
    IF Len(s) = 0 THEN <<>>
    ELSE LET r == FirstSeen(SubSeq(s, 1, Len(s) - 1))
             x == s[Len(s)]
         IN  IF \E i \in DOMAIN r : Lower(r[i]) = Lower(x) THEN r ELSE Append(r, x)

\* C4: on a default-initialized record no two interests are equal ignoring
\* case, and the list is the first-seen spelling of each interest added, in
\* insertion order (so adding a case variant changes nothing).
C4_InterestsUniqueIgnoringCase ==
    \A u \in DOMAIN user_memories :
        IsFull(Mem(u)) =>
            LET interests == Mem(u).profile.interests
            IN  /\ \A i, j \in DOMAIN interests :
                       i # j => Lower(interests[i]) # Lower(interests[j])
                /\ interests = FirstSeen(ArgsOf(u, "add_interest"))

C4_Witness ==
    \E u \in DOMAIN user_memories :
        /\ IsFull(Mem(u))
        /\ ArgsOf(u, "add_interest") = << <<"G", "a">>, <<"g", "a">> >>
        /\ Mem(u).profile.interests = << <<"G", "a">> >>

\* C5: no two family members have names equal ignoring case, and
\* add_family_member with a name that matches an entry ignoring case keeps the
\* length of the list, the entry's position and stored name, sets its relation,
\* and sets its details when details are given; other entries are untouched.
C5_FamilyUpdatedInPlace ==
    [][ \A u \in DOMAIN user_memories' :
          "profile" \in DOMAIN user_memories'[u].memories =>
            LET after == user_memories'[u].memories.profile.family_members
            IN  /\ \A i, j \in DOMAIN after :
                       i # j => Lower(after[i].name) # Lower(after[j].name)
                /\ ( /\ reply'.op = "call"
                     /\ reply'.user = u
                     /\ reply'.call[1] = "add_family_member" ) =>
                       LET before == Mem(u).profile.family_members
                           a      == reply'.call[2]
                           hit    == { i \in DOMAIN before :
                                         Lower(before[i].name) = Lower(a.name) }
                       IN  hit # {} =>
                             /\ Len(after) = Len(before)
                             /\ \A i \in DOMAIN before :
                                  after[i] =
                                    IF i \in hit
                                    THEN [ name     |-> before[i].name,
                                           relation |-> a.relation,
                                           details  |-> IF a.details \notin {"", None}
                                                        THEN a.details
                                                        ELSE before[i].details ]
                                    ELSE before[i] ]_vars

C5_Witness ==
    \E u \in DOMAIN user_memories :
        /\ IsFull(Mem(u))
        /\ Len(ArgsOf(u, "add_family_member")) = 2
        /\ ArgsOf(u, "add_family_member")[1].name = <<"E", "m">>
        /\ ArgsOf(u, "add_family_member")[2].name = <<"e", "m">>
        /\ Mem(u).profile.family_members =
               << [name |-> <<"E", "m">>, relation |-> "granddaughter", details |-> "soccer"] >>

\* C6: conversation_count equals the number of session ids created for the
\* user.
C6_CountEqualsSessionsCreated ==
    \A u \in DOMAIN user_memories :
        Get(Mem(u), "conversation_count", 0) = Len(created[u])

\* C7: send_message with a session id that is not registered answers 404 and
\* changes no session, no memory record and no file.
C7_UnknownSessionIsNotFound ==
    [][ (reply'.op = "send" /\ reply'.sid \notin DOMAIN active_sessions) =>
          /\ reply'.status = 404
          /\ UNCHANGED <<active_sessions, user_memories, disk>> ]_vars

C7_Witness ==
    /\ reply.op = "send" /\ reply.status = 404
    /\ active_sessions # <<>>
    /\ \E u \in UserIds : reply.sid \in Range(created[u])

\* C8: end_session with a session id that is not registered does not fail,
\* runs no extraction and changes no session, no memory record and no file.
C8_EndUnknownSessionIsNoOp ==
    [][ (reply'.op = "end" /\ reply'.sid \notin DOMAIN active_sessions) =>
          /\ reply'.status = 200
          /\ ~reply'.ran
          /\ UNCHANGED <<active_sessions, user_memories, disk, calls>> ]_vars

C8_Witness ==
    /\ reply.op = "end" /\ reply.status = 200 /\ ~reply.ran
    /\ \E u \in UserIds : reply.sid \in Range(created[u])

\* C9: end_session on a registered id hands the whole transcript to the
\* extractor and then removes the session, whatever the extraction did; a
\* send_message on an id that was registered and no longer is answers 404.
C9_EndExtractsThenRemoves ==
    [][ /\ (reply'.op = "end" /\ reply'.sid \in DOMAIN active_sessions) =>
              /\ reply'.ran
              /\ reply'.transcript = Transcript(active_sessions[reply'.sid])
              /\ Len(reply'.transcript) = Len(active_sessions[reply'.sid].history)
              /\ reply'.status = 200
              /\ DOMAIN active_sessions' = DOMAIN active_sessions \ {reply'.sid}
        /\ ( /\ reply'.op = "send"
             /\ reply'.sid \notin DOMAIN active_sessions'
             /\ \E u \in UserIds : reply'.sid \in Range(created[u]) ) =>
              reply'.status = 404 ]_vars

C9_Witness ==
    /\ reply.op = "end" /\ reply.ran /\ reply.caught = "ProviderError"
    /\ Len(reply.transcript) >= 2
    /\ reply.sid \notin DOMAIN active_sessions

\* C10: an extraction whose provider call fails, whose answer has no {...}
\* span or whose span is not JSON returns the empty result and changes neither
\* the in-memory record nor the file.
C10_FailedExtractionChangesNothing ==
    [][ (reply'.op = "extract" /\ reply'.class \in {"raises", "no_span", "not_json"}) =>
          /\ reply'.empty
          /\ user_memories' = user_memories
          /\ disk' = disk ]_vars

C10_Witness ==
    /\ reply.op = "extract" /\ reply.class = "not_json" /\ reply.empty
    /\ CallCount(reply.user) > 0
    /\ disk[reply.user] = Json(Mem(reply.user))

\* the mutator calls that fold every listed fact of a parsed object: a field
\* that is missing or null lists nothing
FactsOf(extracted, field, op) ==
    IF field \notin DOMAIN extracted \/ extracted[field].t = "null" THEN <<>>
    ELSE LET items == IF field = "family_members"
                      THEN SelectSeq(extracted[field].v, HasName)
                      ELSE extracted[field].v
         IN  [ i \in DOMAIN items |->
                 IF field = "family_members" THEN MemberCall(items[i])
                 ELSE Call(op, items[i]) ]

Listed(extracted) ==
    FactsOf(extracted, "family_members", "add_family_member")
      \o FactsOf(extracted, "interests", "add_interest")
      \o FactsOf(extracted, "health_mentions", "add_health_note")
      \o FactsOf(extracted, "important_stories", "add_story")
      \o FactsOf(extracted, "topics_discussed", "add_recent_topic")

\* the fact of a mutator call is in the record m
Present(c, m) ==
    /\ IsFull(m)
    /\ CASE c[1] = "add_family_member" ->
               \E i \in DOMAIN m.profile.family_members :
                   Lower(m.profile.family_members[i].name) = Lower(c[2].name)
          [] c[1] = "add_interest" ->
               \E i \in DOMAIN m.profile.interests :
                   Lower(m.profile.interests[i]) = Lower(c[2])
          [] c[1] = "add_health_note" -> c[2] \in Range(m.profile.health_notes)
          [] c[1] = "add_story" -> \E i \in DOMAIN m.stories : m.stories[i].summary = c[2]
          [] c[1] = "add_recent_topic" -> c[2] \in Range(m.recent_topics)
          [] OTHER -> TRUE

\* C11: an extraction whose answer parses as an object in which each of the
\* five list fields is a list, missing or null, applied to a default-initialized
\* record while no write fails, calls the mutator of every listed fact, leaves
\* each fact in the record and in the file, and returns the parsed object.
C11_ParsedObjectFoldedAndReturned ==
    [][ ( /\ reply'.op = "extract"
          /\ reply'.class = "object"
          /\ IsFull(Mem(reply'.user))
          /\ faults' = faults ) =>
            /\ reply'.result = reply'.parsed
            /\ reply'.entered = Listed(reply'.parsed)
            /\ \A i \in DOMAIN reply'.entered :
                   /\ Present(reply'.entered[i], user_memories'[reply'.user].memories)
                   /\ disk'[reply'.user] = Json(user_memories'[reply'.user].memories) ]_vars

\* C12: whenever a write inside a mutator fails, the operation that called the
\* mutator (start_conversation creating the session, end_conversation running
\* the extraction) fails too: its caller gets an error.
C12_FailedWriteReachesCaller ==
    [][ (reply'.op \in {"start", "end"} /\ faults' > faults) => reply'.status = 500 ]_vars

\* C13: send_message on a registered session always answers 200 with a
\* response and an emotion, whatever the two model calls did: the fallback text
\* with the user's name when the chat call failed, the neutral default when the
\* emotion call failed.
C13_KnownSessionAlwaysAnswers ==
    [][ (reply'.op = "send" /\ reply'.sid \in DOMAIN active_sessions) =>
          /\ reply'.status = 200
          /\ reply'.response[1] \in {"text", "fallback"}
          /\ reply'.response[1] = "fallback" =>
                reply'.response[2] = active_sessions[reply'.sid].user_name
          /\ reply'.emotion[1] = "dict" ]_vars

\* the fields of a fully initialized record
RecordFields ==
    { "user_name", "created_at", "last_conversation", "profile", "stories",
      "recent_topics", "conversation_count" }

ProfileFields ==
    { "family_members", "health_notes", "interests", "important_dates",
      "location", "occupation" }

\* C14: whatever the user's file holds, the record that get-or-create has just
\* loaded has every field, the profile fields included.
C14_LoadedRecordHasEveryField ==
    reply.op = "open" =>
        /\ RecordFields \subseteq DOMAIN Mem(reply.user)
        /\ ProfileFields \subseteq DOMAIN Mem(reply.user).profile

ContextSections == <<"name", "family", "health", "interests", "topics", "count">>

\* C16: the context string of a record is the name line, then the family line
\* with the first 5 members, the health line with the last 3 notes, the
\* interests line with the first 5 interests, the topics line with the last 3
\* topics and the count line, in this order, a line being there only if its
\* list is not empty (the count line only if the count is positive); computing
\* it changes neither the record nor the file.
C16_ContextSummaryIsPureAndOrdered ==
    [][ reply'.op = "context" =>
          LET um        == user_memories[reply'.user]
              m         == um.memories
              profile   == IF "profile" \in DOMAIN m THEN m.profile ELSE EmptyObject
              family    == IF "family_members" \in DOMAIN profile THEN profile.family_members ELSE <<>>
              health    == IF "health_notes" \in DOMAIN profile THEN profile.health_notes ELSE <<>>
              interests == IF "interests" \in DOMAIN profile THEN profile.interests ELSE <<>>
              topics    == IF "recent_topics" \in DOMAIN m THEN m.recent_topics ELSE <<>>
              count     == IF "conversation_count" \in DOMAIN m THEN m.conversation_count ELSE 0
              lines     == reply'.lines
              there(t)  == CASE t = "name"      -> TRUE
                             [] t = "family"    -> Len(family) > 0
                             [] t = "health"    -> Len(health) > 0
                             [] t = "interests" -> Len(interests) > 0
                             [] t = "topics"    -> Len(topics) > 0
                             [] OTHER           -> count > 0
              nf == IF Len(family) < 5 THEN Len(family) ELSE 5
              nh == IF Len(health) < 3 THEN Len(health) ELSE 3
              ni == IF Len(interests) < 5 THEN Len(interests) ELSE 5
              nt == IF Len(topics) < 3 THEN Len(topics) ELSE 3
          IN  /\ [ i \in DOMAIN lines |-> lines[i][1] ] = SelectSeq(ContextSections, there)
              /\ \A i \in DOMAIN lines :
                   CASE lines[i][1] = "name" -> lines[i][2] = um.user_name
                     [] lines[i][1] = "family" ->
                          lines[i][2] = [ k \in 1..nf |->
                                            << family[k].name, family[k].relation,
                                               IF family[k].details \in {"", None}
                                               THEN "" ELSE family[k].details >> ]
                     [] lines[i][1] = "health" ->
                          lines[i][2] = [ k \in 1..nh |-> health[Len(health) - nh + k] ]
                     [] lines[i][1] = "interests" ->
                          lines[i][2] = [ k \in 1..ni |-> interests[k] ]
                     [] lines[i][1] = "topics" ->
                          lines[i][2] = [ k \in 1..nt |-> topics[Len(topics) - nt + k] ]
                     [] OTHER -> lines[i][2] = count /\ lines[i][3] = um.user_name
              /\ (Len(family) = 0 /\ Len(health) = 0 /\ Len(interests) = 0
                    /\ Len(topics) = 0 /\ count = 0) => Len(lines) = 1
              /\ user_memories' = user_memories
              /\ disk' = disk ]_vars

C16_Witness ==
    /\ reply.op = "context"
    /\ Len(reply.lines) = 6
    /\ Len(Mem(reply.user).profile.family_members) = 6
    /\ Len(reply.lines[2][2]) = 5
    /\ Len(Mem(reply.user).profile.health_notes) = 4
    /\ reply.lines[3][2] = <<2, 3, 4>>
    /\ Len(Mem(reply.user).profile.interests) = 6
    /\ Len(Mem(reply.user).recent_topics) = 4
    /\ disk[reply.user] = Json(Mem(reply.user))

\* C17: get_or_create_session with a session id that is registered returns the
\* registered session and changes nothing: no session, no record (so no
\* conversation_count increment), no file, no mutator call, whatever the user
\* name given.
C17_CreateWithKnownIdChangesNothing ==
    [][ (reply'.op = "create" /\ reply'.sid \in DOMAIN active_sessions) =>
          /\ reply'.exc = "none"
          /\ reply'.brain = active_sessions[reply'.sid]
          /\ UNCHANGED <<active_sessions, user_memories, disk, calls, created, faults>> ]_vars

C17_Witness ==
    /\ reply.op = "create" /\ ~reply.isNew /\ reply.exc = "none"
    /\ reply.sid \in DOMAIN active_sessions
    /\ reply.name # active_sessions[reply.sid].user_name
    /\ Len(active_sessions[reply.sid].history) > 0
    /\ Mem(active_sessions[reply.sid].user_id).conversation_count = 1

\* the number of facts folded before an extraction aborted: the abort is
\* either inside the last mutator entered or while starting the next loop
FoldedBeforeAbort(entered, caught) ==
    IF caught = "TypeError" THEN Len(entered) ELSE Len(entered) - 1

\* C18: when an extraction aborts while folding the (K+1)-th fact of a parsed
\* answer, each of the first K facts is in the in-memory record and in the
\* record held by the file.
C18_PartialExtractionIsDurable ==
    [][ (reply'.op = "extract" /\ reply'.class = "object" /\ reply'.caught # "none") =>
          \A i \in 1..FoldedBeforeAbort(reply'.entered, reply'.caught) :
              /\ Present(reply'.entered[i], user_memories'[reply'.user].memories)
              /\ disk'[reply'.user].kind = "json"
              /\ Present(reply'.entered[i], disk'[reply'.user].obj) ]_vars

\* C19: start_conversation asks for the first-meeting greeting exactly when
\* conversation_count is 1 after the increment and for the returning greeting
\* when it is greater; the greeting prompt is the first user turn of the
\* session history, followed by the greeting as an assistant turn when the
\* model call succeeded; the transcript end_session hands to the extractor
\* starts with the greeting prompt.
C19_GreetingIsAnOrdinaryTurn ==
    [][ /\ (reply'.op = "start" /\ reply'.status = 200) =>
              LET brain == active_sessions'[reply'.sid]
                  count == user_memories'[reply'.user].memories.conversation_count
              IN  /\ (reply'.prompt[1] = "first_greeting") <=> (count = 1)
                  /\ (reply'.prompt[1] = "returning_greeting") <=> (count > 1)
                  /\ reply'.prompt[1] = "returning_greeting" => reply'.prompt[3] = count
                  /\ brain.history[1] = <<"user", reply'.prompt>>
                  /\ IF reply'.greeting[1] = "text"
                     THEN brain.history = << <<"user", reply'.prompt>>,
                                             <<"assistant", reply'.greeting>> >>
                     ELSE brain.history = << <<"user", reply'.prompt>> >>
        /\ (reply'.op = "end" /\ reply'.sid \in DOMAIN active_sessions) =>
              /\ reply'.ran
              /\ Len(reply'.transcript) >= 1
              /\ reply'.transcript[1][1] = active_sessions[reply'.sid].user_name
              /\ reply'.transcript[1][2][1] \in {"first_greeting", "returning_greeting"}
              /\ reply'.transcript[1][2] = active_sessions[reply'.sid].history[1][2] ]_vars

C19_Witness ==
    /\ reply.op = "end" /\ reply.ran
    /\ Len(reply.transcript) >= 3
    /\ reply.transcript[1][2][1] = "returning_greeting"
    /\ reply.transcript[1][2][3] = 2
    /\ reply.transcript[2][1] = <<"GrandPal">>

\* C20: the system prompt of a new session is the persona rendered with the
\* context string computed after that session's conversation_count increment,
\* and no handler changes the system prompt of a session that stays
\* registered.
C20_SystemPromptFixedAtCreation ==
    [][ /\ \A sid \in DOMAIN active_sessions \cap DOMAIN active_sessions' :
              active_sessions'[sid].system_prompt = active_sessions[sid].system_prompt
        /\ (reply'.op = "start" /\ reply'.status = 200) =>
              LET brain == active_sessions'[reply'.sid]
              IN  /\ brain.system_prompt =
                        LoadCompanionPrompt(brain.user_name,
                                            ContextFor(user_memories'[reply'.user]))
                  /\ \E i \in DOMAIN brain.system_prompt.remembered :
                        /\ brain.system_prompt.remembered[i][1] = "count"
                        /\ brain.system_prompt.remembered[i][2] =
                              user_memories'[reply'.user].memories.conversation_count ]_vars

C20_Witness ==
    /\ reply.op = "end" /\ reply.ran /\ reply.caught = "none" /\ ~reply.empty
    /\ \E sid \in DOMAIN active_sessions :
          /\ sid # reply.sid
          /\ active_sessions[sid].user_id = reply.user
          /\ Len(active_sessions[sid].history) > 2
          /\ active_sessions[sid].system_prompt.remembered #
                ContextFor(user_memories[reply.user])
          /\ Len(Mem(reply.user).profile.family_members) > 0
          /\ Mem(reply.user).conversation_count = 2

\* C21: a send_message (or greeting) whose model call succeeds appends one
\* user turn and then one assistant turn to the session's history, one whose
\* model call fails appends the user turn only; no handler changes the history
\* of any other session or removes a turn; so every assistant turn comes right
\* after a user turn, and the history grows by 2 per successful and by 1 per
\* failed model call.
C21_HistoryIsAppendOnly ==
    [][ /\ \A sid \in DOMAIN active_sessions \cap DOMAIN active_sessions' :
              LET before == active_sessions[sid].history
                  after  == active_sessions'[sid].history
              IN  IF reply'.op = "send" /\ reply'.sid = sid
                  THEN /\ Len(after) = Len(before) + (IF reply'.response[1] = "text" THEN 2 ELSE 1)
                       /\ SubSeq(after, 1, Len(before)) = before
                       /\ after[Len(before) + 1][1] = "user"
                       /\ reply'.response[1] = "text" =>
                             after[Len(after)] = <<"assistant", reply'.response>>
                       /\ reply'.response[1] # "text" => reply'.response[1] = "fallback"
                  ELSE after = before
        /\ (reply'.op = "start" /\ reply'.status = 200) =>
              Len(active_sessions'[reply'.sid].history)
                  = (IF reply'.greeting[1] = "text" THEN 2 ELSE 1)
        /\ \A sid \in DOMAIN active_sessions' :
              LET h == active_sessions'[sid].history
              IN  \A i \in DOMAIN h :
                      /\ h[i][1] \in {"user", "assistant"}
                      /\ h[i][1] = "assistant" => (i > 1 /\ h[i-1][1] = "user")
                      /\ h[i][1] = "assistant" => h[i][2][1] = "text" ]_vars

C21_Witness ==
    /\ reply.op = "send" /\ reply.response[1] = "text"
    /\ reply.sid \in DOMAIN active_sessions
    /\ LET h == active_sessions[reply.sid].history
       IN  /\ Len(h) = 4
           /\ h[1][1] = "user" /\ h[2][1] = "user" /\ h[3][1] = "user"
           /\ h[4] = <<"assistant", reply.response>>

\* the end_session coroutines called for one session id
TasksOf(session_id) == { t \in DOMAIN tasks : tasks[t].sid = session_id }

\* C22: of the end_conversation requests in flight for one registered session
\* id, at most one runs the extraction and exactly one removes the session;
\* every one that has finished answered 200 and the session is gone; the
\* mutator calls logged are those of that one extraction.
C22_OverlappingEndsAreSafe ==
    \A sid \in SessionIds :
        /\ Cardinality({ t \in TasksOf(sid) : tasks[t].ran }) <= 1
        /\ Cardinality({ t \in TasksOf(sid) : tasks[t].removed }) <= 1
        /\ \A t \in TasksOf(sid) :
              tasks[t].pc = "done" =>
                  /\ tasks[t].status = 200
                  /\ sid \notin DOMAIN active_sessions
                  /\ Cardinality({ t2 \in TasksOf(sid) : tasks[t2].removed }) = 1
                  /\ Cardinality({ t2 \in TasksOf(sid) : tasks[t2].ran }) = 1

C22_Witness ==
    \E t1, t2 \in DOMAIN tasks :
        /\ t1 # t2
        /\ tasks[t1].sid = tasks[t2].sid
        /\ tasks[t1].pc = "done" /\ tasks[t2].pc = "done"
        /\ tasks[t2].overlapped
        /\ tasks[t2].ran /\ tasks[t2].removed
        /\ ~tasks[t1].ran /\ ~tasks[t1].removed
        /\ tasks[t1].status = 200 /\ tasks[t2].status = 200
        /\ CallCount(UserIdOf(<<"a", "_", "b">>)) > 1

====
